---- MODULE Spec2Model ----
(***************************************************************************)
(* A model of crop_logo.py: the function crop_whitespace(image_path,       *)
(* output_path) and the script's entry point, over a small file system.    *)
(* The Pillow calls the script makes (Image.open, convert, getbbox, crop,  *)
(* save) are modelled by what they do to the image and to the file system. *)
(***************************************************************************)
EXTENDS Integers, Sequences, FiniteSets, TLC

\* Largest width and height of the enumerated input images.
MaxW == 3
MaxH == 3

----------------------------------------------------------------------------
(* Paths *)

LogoPath == "scripts/public/hsbc_logo.png"
OutPng   == "out/logo.png"
NewPng   == "out/new.png"
OutJpg   == "out/logo.jpg"
Paths    == {LogoPath, OutPng, NewPng, OutJpg}

\* Mutant of MainOutputPath: the entry point writes beside the input.
MainOutputPathElsewhere == OutPng

\* input_path and output_path of the entry point (the same file).
MainInputPath  == LogoPath
MainOutputPath == LogoPath

\* save() picks the encoder from the extension of the path.
FormatOf(path) == IF path = OutJpg THEN "JPEG" ELSE "PNG"

----------------------------------------------------------------------------
(* Pixels and images *)

None    == <<>>
NoTrans == <<>>

Transparent      == <<0, 0, 0, 0>>
TransparentWhite == <<255, 255, 255, 0>>
OpaqueBlack      == <<0, 0, 0, 255>>
OpaqueWhite      == <<255, 255, 255, 255>>
RgbBlack         == <<0, 0, 0>>
RgbWhite         == <<255, 255, 255>>

Cells(w, h) == (0 .. (w - 1)) \X (0 .. (h - 1))

NoImage == [mode |-> "none", w |-> 0, h |-> 0, trans |-> NoTrans, px |-> <<>>]

\* An image of background bg with the cells of dots painted fg.
MkImage(mode, trans, w, h, bg, fg, dots) ==
    [mode |-> mode, w |-> w, h |-> h, trans |-> trans,
     px |-> [y \in 1 .. h |-> [x \in 1 .. w |->
               IF <<x - 1, y - 1>> \in dots THEN fg ELSE bg]]]

\* The pixel at column x, row y (both from 0); px holds the rows.
PixelAt(im, x, y) == im.px[y + 1][x + 1]

\* Pixel formats and colour pairs of the enumerated inputs.
Palettes ==
    { [mode |-> "RGBA", trans |-> NoTrans,  bg |-> Transparent,      fg |-> OpaqueBlack],
      [mode |-> "RGBA", trans |-> NoTrans,  bg |-> TransparentWhite, fg |-> OpaqueBlack],
      [mode |-> "RGBA", trans |-> NoTrans,  bg |-> OpaqueWhite,      fg |-> OpaqueBlack],
      [mode |-> "RGBA", trans |-> NoTrans,  bg |-> OpaqueBlack,      fg |-> Transparent],
      [mode |-> "RGB",  trans |-> NoTrans,  bg |-> RgbWhite,         fg |-> RgbBlack],
      [mode |-> "RGB",  trans |-> RgbWhite, bg |-> RgbWhite,         fg |-> RgbBlack],
      [mode |-> "L",    trans |-> NoTrans,  bg |-> <<0>>,            fg |-> <<255>>] }

\* The content of an enumerated image: at most two foreground pixels.
DotSets(w, h) == {{}} \cup {{a, b} : a \in Cells(w, h), b \in Cells(w, h)}

SmallImages ==
    UNION { { MkImage(q[1].mode, q[1].trans, q[2], q[3], q[1].bg, q[1].fg, d) :
                d \in DotSets(q[2], q[3]) } :
            q \in Palettes \X (1 .. MaxW) \X (1 .. MaxH) }

\* The 200x100 white image with a 50x30 rectangle at (75, 35).
ExampleImage ==
    [mode |-> "RGB", w |-> 200, h |-> 100, trans |-> NoTrans,
     px |-> [y \in 1 .. 100 |-> [x \in 1 .. 200 |->
               IF /\ x - 1 >= 75 /\ x - 1 < 75 + 50
                  /\ y - 1 >= 35 /\ y - 1 < 35 + 30
               THEN RgbBlack ELSE RgbWhite]]]

Images == SmallImages \cup {ExampleImage}

----------------------------------------------------------------------------
(* Files *)

Absent  == [kind |-> "absent",  img |-> NoImage]
Garbage == [kind |-> "garbage", img |-> NoImage]
ImageFile(im) == [kind |-> "image", img |-> im]
\* A file whose header decodes and whose pixel data is cut short.
TruncatedFile(im) == [kind |-> "truncated", img |-> im]

OldImage == MkImage("RGB", NoTrans, 2, 1, RgbBlack, RgbWhite, {})

InputFiles ==
    {Absent, Garbage}
      \cup {ImageFile(im) : im \in Images}
      \cup {TruncatedFile(MkImage(m, NoTrans, 2, 2, <<0, 0, 0, 0>>, <<0, 0, 0, 0>>, {})) :
              m \in {"RGB", "RGBA"}}

----------------------------------------------------------------------------
(* The Pillow operations the script calls *)

\* Image.open: the header is read, the pixel data is not.
header(file) == [file.img EXCEPT !.px = <<>>]

\* Image.load: the pixel data is decoded from the open file.
load(im, file) == [im EXCEPT !.px = file.img.px]

\* Mutant of ConvertPixel: the added alpha channel is left at zero.
ConvertPixelZeroAlpha(mode, p, trans) ==
    IF mode = "RGB" THEN <<p[1], p[2], p[3], 0>> ELSE <<p[1], p[1], p[1], 0>>

\* convert('RGBA') of one pixel: alpha is 255, or 0 where the pixel is the
\* image's transparency colour.
ConvertPixel(mode, p, trans) ==
    LET a == IF trans # NoTrans /\ p = trans THEN 0 ELSE 255
    IN  IF mode = "RGB" THEN <<p[1], p[2], p[3], a>> ELSE <<p[1], p[1], p[1], a>>

convert(im) ==
    [mode |-> "RGBA", w |-> im.w, h |-> im.h, trans |-> NoTrans,
     px |-> [y \in 1 .. im.h |-> [x \in 1 .. im.w |->
               ConvertPixel(im.mode, im.px[y][x], im.trans)]]]

\* A pixel getbbox counts as content. Pillow since 10.0 looks at the alpha
\* channel alone (alpha_only=True); earlier releases at every channel.
NonZero(p, alphaonly) ==
    IF alphaonly THEN p[4] # 0 ELSE \E i \in 1 .. 4 : p[i] # 0

SetMin(S) == CHOOSE x \in S : \A y \in S : x <= y
SetMax(S) == CHOOSE x \in S : \A y \in S : x >= y

\* Mutant of getbbox: right and bottom are the last content column and row.
getbboxInclusive(im, alphaonly) ==
    LET xs == {x \in 0 .. (im.w - 1) :
                 \E y \in 0 .. (im.h - 1) : NonZero(PixelAt(im, x, y), alphaonly)}
        ys == {y \in 0 .. (im.h - 1) :
                 \E x \in 0 .. (im.w - 1) : NonZero(PixelAt(im, x, y), alphaonly)}
    IN  IF xs = {} THEN None
        ELSE <<SetMin(xs), SetMin(ys), SetMax(xs), SetMax(ys)>>

\* getbbox: the box (left, top, right, bottom) of the content pixels, right
\* and bottom exclusive; None when the image has none.
getbbox(im, alphaonly) ==
    LET xs == {x \in 0 .. (im.w - 1) :
                 \E y \in 0 .. (im.h - 1) : NonZero(PixelAt(im, x, y), alphaonly)}
        ys == {y \in 0 .. (im.h - 1) :
                 \E x \in 0 .. (im.w - 1) : NonZero(PixelAt(im, x, y), alphaonly)}
    IN  IF xs = {} THEN None
        ELSE <<SetMin(xs), SetMin(ys), SetMax(xs) + 1, SetMax(ys) + 1>>

\* Mutant of crop: the image is returned whole.
cropNothing(im, box) == im

\* crop: the pixels of im inside box, as a new image.
crop(im, box) ==
    [mode |-> im.mode, w |-> box[3] - box[1], h |-> box[4] - box[2], trans |-> im.trans,
     px |-> [y \in 1 .. (box[4] - box[2]) |-> [x \in 1 .. (box[3] - box[1]) |->
               im.px[y + box[2]][x + box[1]]]]]

size(im) == <<im.w, im.h>>

----------------------------------------------------------------------------
(* State *)

VARIABLES
    fs,            \* the file at each path
    alphaOnly,     \* the installed Pillow's getbbox looks at alpha alone
    entry,         \* "none", "main" (the script is run) or "direct" (a caller's call)
    pc,            \* position in the script
    input_path, output_path,
    img,           \* the local img
    loaded,        \* img's pixel data is decoded
    fp,            \* the input's file handle: "none", "open" or "closed"
    bbox,          \* the local bbox; None before getbbox and when it returns None
    cropped,       \* the local cropped
    frame,         \* crop_whitespace's frame: "none", "active", "unwound" or "released"
    exc,           \* the exception in flight or last raised
    stdout,        \* the lines printed by this run
    exitStatus,    \* the process's exit status, -1 while it runs
    writes,        \* writes to the file system made by this run
    written,       \* size of the image this run saved, None if none
    origImg,       \* the image decoded from input_path by this run
    fsAtCall,      \* the file system when this run's call began
    prevWritten    \* written of the run before this one

vars == <<fs, alphaOnly, entry, pc, input_path, output_path, img, loaded, fp, bbox,
          cropped, frame, exc, stdout, exitStatus, writes, written, origImg,
          fsAtCall, prevWritten>>

env    == <<alphaOnly, entry>>
locals == <<img, loaded, fp, bbox, cropped>>
hist   == <<origImg, fsAtCall, prevWritten>>

Init ==
    /\ \E f \in InputFiles :
         fs = [p \in Paths |-> IF p = LogoPath THEN f
                               ELSE IF p = NewPng THEN Absent
                               ELSE ImageFile(OldImage)]
    /\ alphaOnly \in BOOLEAN
    /\ entry = "none"
    /\ pc = "idle"
    /\ input_path = "" /\ output_path = ""
    /\ img = NoImage /\ loaded = FALSE /\ fp = "none"
    /\ bbox = None /\ cropped = NoImage
    /\ frame = "none"
    /\ exc = "none"
    /\ stdout = <<>>
    /\ exitStatus = -1
    /\ writes = 0
    /\ written = None
    /\ origImg = NoImage
    /\ fsAtCall = fs
    /\ prevWritten = None

----------------------------------------------------------------------------
(* crop_whitespace *)

\* The call: fresh locals in a new frame.
Enter(inp, out) ==
    /\ input_path' = inp /\ output_path' = out
    /\ img' = NoImage /\ loaded' = FALSE /\ fp' = "none"
    /\ bbox' = None /\ cropped' = NoImage
    /\ frame' = "active"
    /\ exc' = "none"
    /\ writes' = 0 /\ written' = None
    /\ origImg' = NoImage
    /\ fsAtCall' = fs
    /\ pc' = "open"

\* An exception leaves the function: the traceback keeps the frame, and with
\* it the locals, until the exception is dropped.
Raise(e) ==
    /\ exc' = e
    /\ frame' = "unwound"
    /\ pc' = "raised"

\* A normal return: the frame is dropped and with it every local.
Return ==
    /\ frame' = "released"
    /\ fp' = IF fp = "open" THEN "closed" ELSE fp
    /\ pc' = "returned"

\* img = Image.open(image_path)
Open ==
    /\ pc = "open"
    /\ LET file == fs[input_path] IN
       CASE file.kind = "absent" ->
              /\ Raise("FileNotFoundError")
              /\ UNCHANGED <<img, loaded, fp, origImg>>
         [] file.kind = "garbage" ->
              /\ Raise("UnidentifiedImageError")
              /\ fp' = "closed"
              /\ UNCHANGED <<img, loaded, origImg>>
         [] OTHER ->
              /\ img' = header(file)
              /\ loaded' = FALSE
              /\ fp' = "open"
              /\ origImg' = file.img
              /\ pc' = "mode"
              /\ UNCHANGED <<exc, frame>>
    /\ UNCHANGED <<fs, env, input_path, output_path, bbox, cropped, stdout,
                   exitStatus, writes, written, fsAtCall, prevWritten>>

\* if img.mode != 'RGBA': img = img.convert('RGBA')
Convert ==
    /\ pc = "mode"
    /\ img.mode # "RGBA"
    /\ LET file == fs[input_path] IN
       IF file.kind = "truncated"
       THEN /\ Raise("OSError: image file is truncated")
            /\ UNCHANGED <<img, loaded, fp>>
       ELSE /\ img' = convert(load(img, file))
            /\ loaded' = TRUE
            /\ fp' = "closed"
            /\ pc' = "getbbox"
            /\ UNCHANGED <<exc, frame>>
    /\ UNCHANGED <<fs, env, input_path, output_path, bbox, cropped, stdout,
                   exitStatus, writes, written, hist>>

\* img.mode == 'RGBA': no conversion
SkipConvert ==
    /\ pc = "mode"
    /\ img.mode = "RGBA"
    /\ pc' = "getbbox"
    /\ UNCHANGED <<fs, env, input_path, output_path, locals, frame, exc, stdout,
                   exitStatus, writes, written, hist>>

\* bbox = img.getbbox(); if bbox:
GetBBox ==
    /\ pc = "getbbox"
    /\ LET file == fs[input_path] IN
       IF ~loaded /\ file.kind = "truncated"
       THEN /\ Raise("OSError: image file is truncated")
            /\ UNCHANGED <<img, loaded, fp, bbox>>
       ELSE LET im == IF loaded THEN img ELSE load(img, file)
                box == getbbox(im, alphaOnly)
            IN  /\ img' = im
                /\ loaded' = TRUE
                /\ fp' = "closed"
                /\ bbox' = box
                /\ pc' = IF box # None THEN "crop" ELSE "nocontent"
                /\ UNCHANGED <<exc, frame>>
    /\ UNCHANGED <<fs, env, input_path, output_path, cropped, stdout,
                   exitStatus, writes, written, hist>>

\* cropped = img.crop(bbox)
Crop ==
    /\ pc = "crop"
    /\ cropped' = crop(img, bbox)
    /\ pc' = "save"
    /\ UNCHANGED <<fs, env, input_path, output_path, img, loaded, fp, bbox, frame,
                   exc, stdout, exitStatus, writes, written, hist>>

\* cropped.save(output_path), a PNG path: the file becomes the encoded image.
SavePng ==
    /\ pc = "save"
    /\ FormatOf(output_path) = "PNG"
    /\ fs' = [fs EXCEPT ![output_path] = ImageFile([cropped EXCEPT !.trans = NoTrans])]
    /\ writes' = writes + 1
    /\ written' = size(cropped)
    /\ pc' = "report"
    /\ UNCHANGED <<env, input_path, output_path, locals, frame, exc, stdout,
                   exitStatus, hist>>

\* cropped.save(output_path), a JPEG path: the file is opened for writing
\* (and so emptied) and the encoder refuses the RGBA image.
SaveJpeg ==
    /\ pc = "save"
    /\ FormatOf(output_path) = "JPEG"
    /\ fs' = [fs EXCEPT ![output_path] = Garbage]
    /\ writes' = writes + 1
    /\ Raise("OSError: cannot write mode RGBA as JPEG")
    /\ UNCHANGED <<env, input_path, output_path, locals, stdout, exitStatus,
                   written, hist>>

\* cropped.save(output_path) where the path cannot be opened for writing.
SaveDenied ==
    /\ pc = "save"
    /\ Raise("PermissionError")
    /\ UNCHANGED <<fs, env, input_path, output_path, locals, stdout, exitStatus,
                   writes, written, hist>>

\* The four prints of the success branch, then the function returns.
ReportSuccess ==
    /\ pc = "report"
    /\ stdout' = stdout \o << <<"Logo cropped successfully!">>,
                              <<"Original size", size(img)>>,
                              <<"Cropped size", size(cropped)>>,
                              <<"Saved to", output_path>> >>
    /\ Return
    /\ UNCHANGED <<fs, env, input_path, output_path, img, loaded, bbox, cropped,
                   exc, exitStatus, writes, written, hist>>

\* Mutant of ReportNoContent: the else branch saves the image as it is.
ReportNoContentSaving ==
    /\ pc = "nocontent"
    /\ stdout' = Append(stdout, <<"Could not find content to crop">>)
    /\ fs' = [fs EXCEPT ![output_path] = ImageFile(img)]
    /\ writes' = writes + 1
    /\ Return
    /\ UNCHANGED <<env, input_path, output_path, img, loaded, bbox, cropped,
                   exc, exitStatus, written, hist>>

\* The else branch: one print, then the function returns.
ReportNoContent ==
    /\ pc = "nocontent"
    /\ stdout' = Append(stdout, <<"Could not find content to crop">>)
    /\ Return
    /\ UNCHANGED <<fs, env, input_path, output_path, img, loaded, bbox, cropped,
                   exc, exitStatus, writes, written, hist>>

----------------------------------------------------------------------------
(* The entry point *)

\* python crop_logo.py
RunScript ==
    /\ pc = "idle"
    /\ entry' = "main"
    /\ pc' = "import"
    /\ UNCHANGED <<fs, alphaOnly, input_path, output_path, locals, frame, exc,
                   stdout, exitStatus, writes, written, hist>>

\* from PIL import Image
ImportOk ==
    /\ pc = "import"
    /\ pc' = "main"
    /\ UNCHANGED <<fs, env, input_path, output_path, locals, frame, exc, stdout,
                   exitStatus, writes, written, hist>>

\* from PIL import Image, Pillow not installed: the import is outside the try.
ImportFail ==
    /\ pc = "import"
    /\ exc' = "ModuleNotFoundError"
    /\ exitStatus' = 1
    /\ pc' = "exit"
    /\ UNCHANGED <<fs, env, input_path, output_path, locals, frame, stdout,
                   writes, written, hist>>

\* try: crop_whitespace(input_path, output_path)
MainCall ==
    /\ pc = "main"
    /\ Enter(MainInputPath, MainOutputPath)
    /\ UNCHANGED <<fs, env, stdout, exitStatus, prevWritten>>

\* except Exception as e: the two prints; e is dropped when the clause ends.
Handler ==
    /\ pc = "raised"
    /\ entry = "main"
    /\ stdout' = stdout \o << <<"Error", exc>>,
                              <<"Make sure Pillow is installed: pip install Pillow">> >>
    /\ frame' = "released"
    /\ fp' = IF fp = "open" THEN "closed" ELSE fp
    /\ pc' = "handled"
    /\ UNCHANGED <<fs, env, input_path, output_path, img, loaded, bbox, cropped,
                   exc, exitStatus, writes, written, hist>>

\* The script ends.
Exit ==
    /\ pc \in {"returned", "handled"}
    /\ entry = "main"
    /\ exitStatus' = 0
    /\ pc' = "exit"
    /\ UNCHANGED <<fs, env, input_path, output_path, locals, frame, exc, stdout,
                   writes, written, hist>>

----------------------------------------------------------------------------
(* Other callers *)

\* A caller's crop_whitespace(LogoPath, out).
DirectCall ==
    /\ pc = "idle"
    /\ \E out \in {OutPng, NewPng, OutJpg} :
         Enter(LogoPath, out)
    /\ entry' = "direct"
    /\ UNCHANGED <<fs, alphaOnly, stdout, exitStatus, prevWritten>>

RunEnded ==
    \/ entry = "main" /\ pc = "exit"
    \/ entry = "direct" /\ pc \in {"returned", "raised"}

\* The script is run again.
RerunScript ==
    /\ entry = "main" /\ pc = "exit"
    /\ prevWritten' = written
    /\ stdout' = <<>>
    /\ exitStatus' = -1
    /\ exc' = "none"
    /\ frame' = "none"
    /\ fp' = "none"
    /\ img' = NoImage /\ loaded' = FALSE /\ bbox' = None /\ cropped' = NoImage
    /\ writes' = 0 /\ written' = None
    /\ origImg' = NoImage
    /\ pc' = "import"
    /\ UNCHANGED <<fs, env, input_path, output_path, fsAtCall>>

\* The caller crops the output of its last call in place.
RecropOutput ==
    /\ entry = "direct" /\ pc \in {"returned", "raised"}
    /\ prevWritten' = written
    /\ stdout' = <<>>
    /\ Enter(output_path, output_path)
    /\ UNCHANGED <<fs, env, exitStatus>>

Next ==
    \/ RunScript \/ ImportOk \/ ImportFail \/ MainCall \/ Handler \/ Exit
    \/ DirectCall \/ RerunScript \/ RecropOutput
    \/ Open \/ Convert \/ SkipConvert \/ GetBBox \/ Crop
    \/ SavePng \/ SaveJpeg \/ SaveDenied \/ ReportSuccess \/ ReportNoContent

Spec == Init /\ [][Next]_vars

----------------------------------------------------------------------------
(* Vocabulary of the properties *)

NoContentLine == <<"Could not find content to crop">>

\* getbbox has run in this call.
BoxComputed == loaded /\ pc \notin {"idle", "import", "main", "open", "mode", "getbbox"}

\* The call returned normally (the script may have ended since).
Returned == pc \in {"returned", "exit"} /\ exc = "none" /\ frame = "released"

BoxSize(box) == <<box[3] - box[1], box[4] - box[2]>>

Uniform(im) ==
    \A x \in 0 .. (im.w - 1), y \in 0 .. (im.h - 1) : PixelAt(im, x, y) = PixelAt(im, 0, 0)

\* A border of one colour, one pixel wide or more, around an interior that is
\* not of one colour.
BorderedContent(im) ==
    /\ im.w >= 3 /\ im.h >= 3
    /\ \A x \in 0 .. (im.w - 1), y \in 0 .. (im.h - 1) :
         (x \in {0, im.w - 1} \/ y \in {0, im.h - 1}) => PixelAt(im, x, y) = PixelAt(im, 0, 0)
    /\ \E x1 \in 1 .. (im.w - 2), y1 \in 1 .. (im.h - 2) :
         \E x2 \in 1 .. (im.w - 2), y2 \in 1 .. (im.h - 2) :
           PixelAt(im, x1, y1) # PixelAt(im, x2, y2)

\* The bounding box of the pixels that differ from the border colour.
ContentBox(im) ==
    LET xs == {x \in 0 .. (im.w - 1) :
                 \E y \in 0 .. (im.h - 1) : PixelAt(im, x, y) # PixelAt(im, 0, 0)}
        ys == {y \in 0 .. (im.h - 1) :
                 \E x \in 0 .. (im.w - 1) : PixelAt(im, x, y) # PixelAt(im, 0, 0)}
    IN  <<SetMin(xs), SetMin(ys), SetMax(xs) + 1, SetMax(ys) + 1>>

\* The file at path holds exactly the pixels of im inside box.
HoldsCropOf(path, im, box) ==
    /\ fs[path].kind = "image"
    /\ fs[path].img.mode = "RGBA"
    /\ size(fs[path].img) = BoxSize(box)
    /\ \A x \in 0 .. (box[3] - box[1] - 1), y \in 0 .. (box[4] - box[2] - 1) :
         PixelAt(fs[path].img, x, y) = PixelAt(im, x + box[1], y + box[2])

----------------------------------------------------------------------------
(* Properties *)

\* C1: when getbbox returns no box, the call writes nothing: every file,
\* the one at output_path included (present or not, the input itself or not),
\* is as it was when the call began, and the only output is the
\* no-content line.
C1_NoBoxWritesNothing ==
    (BoxComputed /\ bbox = None) =>
        /\ fs = fsAtCall
        /\ writes = 0 /\ written = None
        /\ pc \in {"nocontent", "returned", "exit"}
        /\ exc = "none"
        /\ stdout = IF pc = "nocontent" THEN <<>> ELSE <<NoContentLine>>

C1_Witness ==
    /\ Returned /\ BoxComputed /\ bbox = None
    /\ fs[output_path].kind = "absent"

\* C2: when getbbox returns a box and save succeeds, the file at output_path
\* is the image of width right - left and height bottom - top holding the
\* pixels of the box, whatever was there before; no other file changes.
C2_BoxFoundWritesBoxSize ==
    (written # None) =>
        /\ bbox # None
        /\ written = BoxSize(bbox)
        /\ HoldsCropOf(output_path, img, bbox)
        /\ \A p \in Paths \ {output_path} : fs[p] = fsAtCall[p]

C2_Witness ==
    /\ Returned /\ written # None
    /\ input_path # output_path
    /\ fsAtCall[output_path] = ImageFile(OldImage)
    /\ written # size(origImg)

\* C3: an image with an interior that is not uniform inside a uniform border
\* is cropped to the bounding box of the content, which is smaller than the
\* image, whatever the border colour.
C3_BorderCroppedToContent ==
    (Returned /\ BoxComputed /\ BorderedContent(origImg)) =>
        /\ written = BoxSize(ContentBox(origImg))
        /\ written[1] < origImg.w /\ written[2] < origImg.h

\* C4: a uniform image, in any pixel mode, gives the no-content line and no
\* output file.
C4_UniformReportsNoContent ==
    (BoxComputed /\ origImg # NoImage /\ Uniform(origImg)) =>
        /\ bbox = None
        /\ writes = 0
        /\ Returned => stdout = <<NoContentLine>>

\* C5: the 200x100 white image with a 50x30 rectangle at (75, 35) is written
\* as a 50x30 image, the box (75, 35, 125, 65).
C5_ExampleCroppedTo50x30 ==
    (BoxComputed /\ origImg = ExampleImage) =>
        /\ bbox = <<75, 35, 125, 65>>
        /\ written # None => written = <<50, 30>>

\* C6: in place (output_path = input_path), the input is fully read before
\* the one write, and after the call the file holds the cropped image, of
\* the box's size; the entry point always runs in place.
C6_InPlaceReadBeforeWrite ==
    /\ (entry = "main" /\ frame # "none") => input_path = output_path
    /\ (input_path = output_path /\ pc = "save") =>
         (loaded /\ fp = "closed" /\ writes = 0 /\ fs = fsAtCall)
    /\ (input_path = output_path /\ written # None) =>
         /\ writes = 1
         /\ HoldsCropOf(input_path, img, bbox)

C6_Witness ==
    /\ entry = "main" /\ pc = "exit" /\ written # None
    /\ written # size(origImg)
    /\ size(fs[input_path].img) = BoxSize(bbox)

\* C7: an image whose bounding box is its full extent is written with its
\* own width and height; so cropping the output of a successful run again,
\* in place, leaves its size as it was.
C7_Idempotent ==
    /\ (written # None /\ bbox = <<0, 0, origImg.w, origImg.h>>) =>
         written = size(origImg)
    /\ (prevWritten # None /\ BoxComputed) =>
         /\ size(origImg) = prevWritten
         /\ bbox = <<0, 0, origImg.w, origImg.h>>
         /\ written # None => written = prevWritten

C7_Witness ==
    /\ Returned /\ prevWritten # None /\ written = prevWritten
    /\ input_path = output_path
    /\ written[1] < MaxW

\* C8: no run of the entry point ends with an uncaught exception: every
\* failure is printed with the install hint and the exit status is that of
\* a successful run.
C8_EntryPointSwallowsFailures ==
    (entry = "main" /\ pc = "exit") =>
        /\ exitStatus = 0
        /\ exc # "none" =>
             /\ Len(stdout) = 2
             /\ stdout[1] = <<"Error", exc>>
             /\ stdout[2] = <<"Make sure Pillow is installed: pip install Pillow">>

\* C9: when crop_whitespace returns or raises, the input's file handle is
\* closed and the decoded image is no longer held, on every exit path.
C9_ResourcesReleasedOnExit ==
    (pc \in {"returned", "raised"}) =>
        /\ fp # "open"
        /\ ~(loaded /\ frame # "released")

====
